---- MODULE Spec2Model ----
(***************************************************************************)
(* A model of the audio-service request handlers: one request, served by   *)
(* one of the handler variants of the repository, from the first line of   *)
(* the handler to the response.  Every await of the code is a step.        *)
(*                                                                         *)
(*   "secret"      src/api/analyze.js 109-282   (X-Worker-Secret guarded)  *)
(*   "media"       src/api/analyze.js 293-369   (mediaUrl, model ensemble) *)
(*   "enterprise"  src/unnamed/part_001 99-231  (sha256, external backend) *)
(*   "quality"     src/unnamed/part_002 1-41    (audioUrl, readJson)       *)
(*                                                                         *)
(* SignalSpec runs the loop of analyzeSignal (analyze.js 372-395) one      *)
(* iteration at a time.                                                    *)
(*                                                                         *)
(* Numbers of the code in [0,1] are kept in hundredths (0.75 is 75).       *)
(* Sizes are scaled: MAX_BYTES and the stream slack are small numbers that *)
(* keep the order of the code's values (slack < MAX_BYTES / 3).            *)
(***************************************************************************)
EXTENDS Integers, Sequences, FiniteSets, TLC

\* ------------------------------------------------------------------ bounds

\* the size limit (12 MiB in part_001, 20 MiB by default in analyze.js), scaled
MAX_BYTES == 4
\* readRequestBody's slack over MAX_BYTES (1024 in the code), scaled
STREAM_SLACK == 1
\* characters of a JSON body besides the base64 text ({"data":""}), scaled
JSON_ENVELOPE == 1

\* the longest artifact a request carries: one byte past what any check admits
MaxLen == MAX_BYTES + STREAM_SLACK + 1

\* the length of each half of the silence scenario's buffers
ScenarioBytes == 10000

\* ------------------------------------------------------- program constants

STRIDE == 50
RUN_THRESHOLD == 50
SEGMENT_THRESHOLD == 2
HEADER_BYTES == 500
OVERCOMPRESSED == 30
SILENCE_RISK == 40
RANGE_RISK == 30
ENCODER_RISK == 75
METHOD_THRESHOLD == 50
AI_WEIGHT == 7
HEUR_WEIGHT == 3
NMODELS == 3

\* ------------------------------------------------------------------- bytes

Min2(a, b) == IF a < b THEN a ELSE b
Max2(a, b) == IF a > b THEN a ELSE b

\* n copies of byte v
Fill(n, v) == [i \in 1..n |-> v]

\* "ID3", "Lavf", "LAME" as bytes
ID3 == <<73, 68, 51>>
LAVF == <<76, 97, 118, 102>>
LAME == <<76, 65, 77, 69>>

\* header.includes(pat)
Includes(s, pat) ==
  \E i \in 0..(Len(s) - Len(pat)) : \A j \in 1..Len(pat) : s[i + j] = pat[j]

\* byteData.slice(0, 500)
Slice(s, n) == SubSeq(s, 1, Min2(Len(s), n))

\* the artifacts a size-limited handler is sent: every byte string over {0, 65}
\* of length <= 2, and a filled one for each longer length up to MaxLen
SmallBufs ==
  UNION { [1..n -> {0, 65}] : n \in 0..2 } \cup { Fill(n, 65) : n \in 3..MaxLen }

\* the remote files the mediaUrl handler fetches (it has no size limit)
MediaBufs ==
  { <<>>, <<0>>, <<7, 200>>, ID3 \o LAVF, ID3 \o LAME \o <<0, 255>>, ID3 \o <<1, 2>>,
    LAVF \o <<0, 90>>, Fill(STRIDE, 10) \o <<200>>,
    Fill(STRIDE * (RUN_THRESHOLD + SEGMENT_THRESHOLD) + 1, 0),
    Fill(STRIDE * (RUN_THRESHOLD + SEGMENT_THRESHOLD) + 1, 0) \o <<255>> }

\* ------------------------------------------------------------- JS numbers

\* a JSON value found where a score is expected: a number (hundredths),
\* undefined, null, or something Number() turns into NaN
Num(v) == [t |-> "num", v |-> v]
Undefined == [t |-> "undefined", v |-> 0]
Null == [t |-> "null", v |-> 0]
NaNValue == [t |-> "nan", v |-> 0]

IsNaN(x) == x.t \in {"nan", "undefined"}

\* ToNumber of a value that is not NaN
ToNum(x) == IF x.t = "num" THEN x.v ELSE 0

\* a > b of JavaScript: false when either side is NaN
JsGreater(a, b) == ~IsNaN(a) /\ ~IsNaN(b) /\ ToNum(a) > ToNum(b)

\* Math.max(a, b, c): NaN when any argument is NaN
MathMax3(a, b, c) ==
  IF IsNaN(a) \/ IsNaN(b) \/ IsNaN(c) THEN NaNValue
  ELSE Num(Max2(ToNum(a), Max2(ToNum(b), ToNum(c))))

\* Number(x ?? 0) || 0
NumberOrZero(x) == IF x.t = "num" THEN x.v ELSE 0

\* ---------------------------------------------------- feature extraction

\* fixed-point scale of the logarithms below (12 fractional bits)
LogScale == 2 ^ 12
\* scale of the mantissa while its bits are taken
MantScale == 2 ^ 14

RECURSIVE FloorLog2(_)
FloorLog2(k) == IF k < 2 THEN 0 ELSE 1 + FloorLog2(k \div 2)

\* the fractional bits of log2 of a mantissa m in [1, 2), by repeated squaring
RECURSIVE FracBits(_, _)
FracBits(m, bit) ==
  IF bit > 12 THEN 0
  ELSE LET sq == (m * m) \div MantScale
       IN  IF sq >= 2 * MantScale
           THEN (LogScale \div (2 ^ bit)) + FracBits(sq \div 2, bit + 1)
           ELSE FracBits(sq, bit + 1)

\* Math.log2(k) for an integer k >= 1, times LogScale
Log2Fix(k) ==
  LET e == FloorLog2(k)
  IN  e * LogScale + FracBits((k * MantScale) \div (2 ^ e), 1)

\* freq[v]
Count(buf, v) == Cardinality({i \in 1..Len(buf) : buf[i] = v})

\* sum over the byte values of freq * (log2(n) - log2(freq)): n times the
\* code's  sum += -p * Math.log2(p)  with p = freq / n
RECURSIVE EntropySum(_, _)
EntropySum(buf, vals) ==
  IF vals = {} THEN 0
  ELSE LET v == CHOOSE x \in vals : TRUE
           k == Count(buf, v)
       IN  k * (Log2Fix(Len(buf)) - Log2Fix(k)) + EntropySum(buf, vals \ {v})

\* Math.round(x) of a non-negative quotient num / den: half rounds up
RoundDiv(num, den) == (2 * num + den) \div (2 * den)

\* simpleEntropyEstimate(buf), in hundredths: Math.round((sum / 8) * 100) / 100.
\* On an empty buffer no bucket is visited and the sum stays 0.
simpleEntropyEstimate(buf) ==
  IF Len(buf) = 0 THEN 0
  ELSE RoundDiv(100 * EntropySum(buf, {buf[i] : i \in 1..Len(buf)}),
                8 * Len(buf) * LogScale)

\* heuristics.zeroByteRatio: Math.round((z / buffer.length) * 100) / 100,
\* which is NaN (0 / 0) on an empty buffer
zeroByteRatio(buf) ==
  IF Len(buf) = 0 THEN NaNValue
  ELSE Num(RoundDiv(100 * Count(buf, 0), Len(buf)))

\* The loop of analyzeSignal, for (let i = 0; i < data.length; i += 50), read
\* off sample by sample: sample k (from 1) is data[(k - 1) * 50].
NSamples(data) == (Len(data) + STRIDE - 1) \div STRIDE
Sample(data, k) == data[(k - 1) * STRIDE + 1]

\* Variant: only the value 0 counts as flat
FlatZeroOnly(val) == val = 0

\* if (val === 0 || val === 128)
Flat(val) == val = 0 \/ val = 128

\* zeroCount after sample k: the samples since the last one that is not flat
\* (a sample that is not flat sets it to 0, a flat one adds 1)
ZeroCount(data, k) ==
  LET breaks == {j \in 1..k : ~Flat(Sample(data, j))}
  IN  IF breaks = {} THEN k ELSE k - (CHOOSE j \in breaks : \A h \in breaks : h <= j)

\* silenceSegments at the end: one for each flat sample with zeroCount > 50
SilenceSegments(data) ==
  Cardinality({k \in 1..NSamples(data) :
                 Flat(Sample(data, k)) /\ ZeroCount(data, k) > RUN_THRESHOLD})

\* min and max start at 255 and 0 and take in every sample
SampleMin(data) ==
  LET vs == {Sample(data, k) : k \in 1..NSamples(data)} \cup {255}
  IN  CHOOSE v \in vs : \A w \in vs : v <= w
SampleMax(data) ==
  LET vs == {Sample(data, k) : k \in 1..NSamples(data)} \cup {0}
  IN  CHOOSE v \in vs : \A w \in vs : v >= w

analyzeSignal(data) ==
  [hasDigitalSilence |-> SilenceSegments(data) > SEGMENT_THRESHOLD,
   dynamicRange |-> SampleMax(data) - SampleMin(data)]

\* physicsScore of the mediaUrl handler
physicsScore(data) ==
  LET physics == analyzeSignal(data)
  IN  (IF physics.hasDigitalSilence THEN SILENCE_RISK ELSE 0)
      + (IF physics.dynamicRange < OVERCOMPRESSED THEN RANGE_RISK ELSE 0)

\* metaRisk of the mediaUrl handler: an MP3 with a software-encoder trace
metaRisk(data) ==
  LET header == Slice(data, HEADER_BYTES)
  IN  IF Includes(header, ID3) /\ (Includes(header, LAVF) \/ Includes(header, LAME))
      THEN ENCODER_RISK ELSE 0

\* ------------------------------------------------------------- upstreams

\* what fake.score can be in a classifier's reply
ReplyScores ==
  { Num(0), Num(40), Num(60), Num(90), Num(170), Num(-20), Undefined, Null, NaNValue }

\* a classifier's answer to queryModel: the fetch rejects, the body is not
\* JSON, the JSON is no array, an element has no label (label.match throws),
\* no label matches, or a matching element with its score
ModelReplies ==
  { [kind |-> k, score |-> Num(0)] : k \in {"neterr", "badjson", "object", "nolabel", "nomatch"} }
  \cup { [kind |-> "fake", score |-> s] : s \in ReplyScores }

\* Variant: queryModel answering 1 instead of 0 when it has no score
queryModelDefaultOne(reply) == IF reply.kind = "fake" THEN reply.score ELSE Num(100)

\* what queryModel returns for a reply
queryModel(reply) == IF reply.kind = "fake" THEN reply.score ELSE Num(0)

\* Variant: queryModel without its try/catch: a rejected fetch, a body that is
\* not JSON and an element without a label throw
QueryThrowsUncaught(reply) == reply.kind \in {"neterr", "badjson", "nolabel"}

\* whether a failure inside queryModel leaves it as an exception: it does not,
\* the whole body is one try { ... } catch (e) { return 0; }
QueryThrows(reply) == FALSE

\* whether the reply is a failure of the upstream (no usable answer)
ReplyFailed(reply) == reply.kind \in {"neterr", "badjson", "object", "nolabel"}

\* if (score > aiScore) aiScore = score
UpdateAi(aiScore, score) == IF JsGreater(score, aiScore) THEN score ELSE aiScore

\* const finalScore = Math.max(aiScore, physicsScore, metaRisk)
FinalScore(aiScore, phys, meta) == MathMax3(aiScore, Num(phys), Num(meta))

\* the method tag of the mediaUrl handler
MethodTag(aiScore, phys, meta) ==
  IF JsGreater(aiScore, Num(METHOD_THRESHOLD)) THEN "NEURAL_AUDIO_NET"
  ELSE IF meta > METHOD_THRESHOLD THEN "ENCODER_FINGERPRINT"
  ELSE IF phys > METHOD_THRESHOLD THEN "SIGNAL_PHYSICS"
  ELSE "UNCERTAIN"

\* the secret-guarded handler's composite:
\* Math.round(((audioAiScore * 0.7) + (heurScore * 0.3)) * 100) / 100
Composite(audioAiScore, heurScore) ==
  RoundDiv(AI_WEIGHT * audioAiScore + HEUR_WEIGHT * heurScore, 10)

\* ------------------------------------------------------------------ base64

\* A base64 text is a sequence of characters: a sextet 0..63, or -1 for a
\* character outside the alphabet.  Padding is not kept.
RECURSIVE Base64Encode(_)
Base64Encode(bytes) ==
  IF Len(bytes) = 0 THEN <<>>
  ELSE IF Len(bytes) = 1
  THEN << bytes[1] \div 4, (bytes[1] % 4) * 16 >>
  ELSE IF Len(bytes) = 2
  THEN << bytes[1] \div 4, (bytes[1] % 4) * 16 + bytes[2] \div 16, (bytes[2] % 16) * 4 >>
  ELSE << bytes[1] \div 4, (bytes[1] % 4) * 16 + bytes[2] \div 16,
          (bytes[2] % 16) * 4 + bytes[3] \div 64, bytes[3] % 64 >>
       \o Base64Encode(SubSeq(bytes, 4, Len(bytes)))

\* the characters of the base64 alphabet in a text, in order
RECURSIVE ValidChars(_)
ValidChars(text) ==
  IF Len(text) = 0 THEN <<>>
  ELSE (IF text[1] >= 0 THEN <<text[1]>> ELSE <<>>) \o ValidChars(Tail(text))

RECURSIVE DecodeSextets(_)
DecodeSextets(sx) ==
  IF Len(sx) < 2 THEN <<>>
  ELSE IF Len(sx) = 2
  THEN << sx[1] * 4 + sx[2] \div 16 >>
  ELSE IF Len(sx) = 3
  THEN << sx[1] * 4 + sx[2] \div 16, (sx[2] % 16) * 16 + sx[3] \div 4 >>
  ELSE << sx[1] * 4 + sx[2] \div 16, (sx[2] % 16) * 16 + sx[3] \div 4,
          (sx[3] % 4) * 64 + sx[4] >>
       \o DecodeSextets(SubSeq(sx, 5, Len(sx)))

\* base64ToBuffer(b64) = Buffer.from(b64, "base64"): never throws, skips what
\* is not base64, and a lone trailing character gives no byte
base64ToBuffer(text) == DecodeSextets(ValidChars(text))

\* the length of the text on the wire, padded to a multiple of four
Base64WireLen(text) == 4 * ((Len(text) + 3) \div 4)

\* ---------------------------------------------------------------- requests

NoBody == [kind |-> "undefined", data |-> <<>>, bytes |-> <<>>]
JsonBody(k) == [kind |-> k, data |-> <<>>, bytes |-> <<>>]
DataBody(text) == [kind |-> "data", data |-> text, bytes |-> <<>>]
RawBody(b) == [kind |-> "bytes", data |-> <<>>, bytes |-> b]

\* the base64 texts a request carries: an encoded artifact, a text of one
\* character that is no base64, a text of one lone base64 character
DataTexts == { Base64Encode(b) : b \in SmallBufs } \cup { <<-1>>, <<16>> }

\* JSON bodies: unparseable text, no text at all, the JSON null, an object
\* with neither data nor url, with data, with url
JsonBodies ==
  { JsonBody(k) : k \in {"invalid", "emptytext", "null", "none", "url"} }
  \cup { DataBody(t) : t \in DataTexts }

\* JSON bodies that the platform can hand over parsed, as req.body
ParsedBodies == { b \in JsonBodies : b.kind \in {"none", "url", "data"} }

RawBodies == { RawBody(b) : b \in SmallBufs }

\* the number of bytes of a body on the wire
WireLen(body) ==
  CASE body.kind = "bytes" -> Len(body.bytes)
    [] body.kind = "emptytext" -> 0
    [] body.kind = "data" -> JSON_ENVELOPE + Base64WireLen(body.data)
    [] OTHER -> JSON_ENVELOPE

Variants == {"secret", "media", "enterprise", "quality"}

Request(m, s, ct, pre, b) ==
  [method |-> m, secret |-> s, ct |-> ct, preParsed |-> pre, body |-> b]

Requests(v) ==
  CASE v = "secret" ->
         { Request(m, s, "json", FALSE, b) :
             m \in {"GET", "PUT", "POST"}, s \in {"", "s1", "s2"}, b \in JsonBodies }
         \cup { Request("POST", s, "json", TRUE, b) : s \in {"", "s1"}, b \in ParsedBodies }
         \cup { Request("POST", s, ct, FALSE, b) :
                  s \in {"", "s1"}, ct \in {"multipart", "raw"}, b \in RawBodies }
    [] v = "enterprise" ->
         { Request(m, "", "json", FALSE, b) :
             m \in {"OPTIONS", "GET", "PUT", "POST"}, b \in JsonBodies }
         \cup { Request("POST", "", "json", TRUE, b) : b \in ParsedBodies }
         \cup { Request("POST", "", "raw", pre, b) : pre \in BOOLEAN, b \in RawBodies }
    [] v = "media" ->
         { Request(m, "", "json", pre, JsonBody(k)) :
             m \in {"OPTIONS", "POST"}, pre \in BOOLEAN, k \in {"invalid", "none", "url"} }
    [] v = "quality" ->
         { Request(m, "", "json", FALSE, JsonBody(k)) :
             m \in {"GET", "POST"}, k \in {"invalid", "emptytext", "null", "none", "url"} }

Environment(secret, hf, sink, backend) ==
  [WORKER_SECRET |-> secret, HF |-> hf, SINK |-> sink, BACKEND |-> backend]

\* process.env: WORKER_SECRET, whether the classifier key (and model id) are
\* set, whether STORAGE_WEBHOOK_URL is set, whether AUDIO_BACKEND_URL is set
Environments(v) ==
  CASE v = "secret" ->
         { Environment(s, hf, sink, FALSE) : s \in {"", "s1"}, hf \in BOOLEAN, sink \in BOOLEAN }
    [] v = "enterprise" ->
         { Environment("", FALSE, sink, be) : sink \in BOOLEAN, be \in BOOLEAN }
    [] v = "media" ->
         { Environment("", hf, FALSE, FALSE) : hf \in BOOLEAN }
    [] v = "quality" ->
         { Environment("", FALSE, FALSE, FALSE) }

\* -------------------------------------------------------------------- state

VARIABLES
  variant,   \* the handler that serves the request
  env,       \* process.env
  req,       \* the request
  pc,        \* where the handler is: "start", an await, "done", "blocked"
  buffer,    \* the materialized artifact
  loc,       \* the handler's local variables
  sink,      \* the forward to STORAGE_WEBHOOK_URL: none, inflight, ok, failed, aborted, dropped
  res,       \* the responses written, in order
  log        \* what the handler has done so far (counters)

vars == << variant, env, req, pc, buffer, loc, sink, res, log >>

Hf(shape) == [shape |-> shape, score |-> Undefined]

\* no classifier has answered yet
NoReply == [kind |-> "none", score |-> Num(0)]

InitLoc ==
  [ body |-> NoBody, stream |-> "intact", received |-> 0, remote |-> <<>>,
    served |-> FALSE, fetched |-> "none", hf |-> Hf("unset"), ext |-> "unset",
    entropy |-> 0, zeroRatio |-> Num(0), aiScore |-> Num(0), phys |-> 0, meta |-> 0,
    idx |-> 0, dispatched |-> {}, settled |-> {}, failed |-> {}, best |-> 0,
    silent |-> "none", reply |-> NoReply, score |-> Undefined,
    physics |-> [hasDigitalSilence |-> FALSE, dynamicRange |-> 0] ]

InitLog ==
  [ bodyReads |-> 0, fetches |-> 0, upstream |-> 0, sinkFwd |-> 0,
    features |-> 0, sizeChecks |-> 0 ]

Init ==
  /\ variant \in Variants
  /\ env \in Environments(variant)
  /\ req \in Requests(variant)
  /\ pc = "start"
  /\ buffer = <<>>
  /\ loc = InitLoc
  /\ sink = "none"
  /\ res = <<>>
  /\ log = InitLog

NoScore == Num(-1)

\* res.status(status).json(...): the response is written and the handler returns
Reply(status, kind, score, method) ==
  /\ res' = Append(res, [status |-> status, kind |-> kind, score |-> score, method |-> method])
  /\ pc' = "done"

ReplyError(status) == Reply(status, "error", NoScore, "")

\* an await that never settles: the handler stays where it is for ever
Block(what) ==
  /\ pc' = "blocked"
  /\ loc' = [loc EXCEPT !.silent = what]
  /\ UNCHANGED res

Bump(field) == log' = [log EXCEPT ![field] = @ + 1]

\* ------------------------------------ the secret-guarded handler (analyze.js)

\* Variant: the comparison alone, without the test that a secret is configured
AuthOKAnyMatch(incoming, expected) == incoming = expected

\* the handler lets the request in: WORKER_SECRET is set and the header is it
AuthOK(incoming, expected) == expected # "" /\ incoming = expected

\* the size guard lets the buffer through
SizeOK(buf) == ~(Len(buf) > MAX_BYTES)

\* Variant: the forward is awaited before the response is written
SinkGateAwaited(s) == s # "inflight"

\* the response waits for the sink forward: it does not (the fetch is not awaited)
SinkGate(s) == TRUE

\* a string is truthy when it is not empty
Truthy(text) == Len(text) > 0

\* JSON.parse of the body text read from the stream; a throw leaves `dflt`
ParseJson(body, dflt) ==
  IF body.kind \in {"invalid", "emptytext"} THEN dflt ELSE body

\* lines 112-138: health check, method, worker secret, dispatch on content type
S_Entry ==
  /\ variant = "secret" /\ pc = "start"
  /\ UNCHANGED << variant, env, req, buffer, sink, log >>
  /\ IF req.method = "GET" THEN Reply(200, "health", NoScore, "") /\ UNCHANGED loc
     ELSE IF req.method # "POST" THEN ReplyError(405) /\ UNCHANGED loc
     ELSE IF ~AuthOK(req.secret, env.WORKER_SECRET) THEN ReplyError(401) /\ UNCHANGED loc
     ELSE /\ UNCHANGED res
          /\ IF req.ct = "json"
             THEN IF req.preParsed
                  THEN pc' = "s_json" /\ loc' = [loc EXCEPT !.body = req.body]
                  ELSE pc' = "s_readjson" /\ UNCHANGED loc
             ELSE IF req.ct = "multipart"
             THEN pc' = "s_multipart" /\ UNCHANGED loc
             ELSE pc' = "s_readraw" /\ UNCHANGED loc

\* lines 143-150: await readRawBody(req), JSON.parse; any failure leaves {}
S_ReadJson ==
  /\ variant = "secret" /\ pc = "s_readjson"
  /\ \E o \in {"end", "error"} :
       loc' = [loc EXCEPT !.body = IF o = "end" THEN ParseJson(req.body, JsonBody("none"))
                                   ELSE JsonBody("none"),
                          !.stream = IF o = "end" THEN "ended" ELSE "error"]
  /\ Bump("bodyReads")
  /\ pc' = "s_json"
  /\ UNCHANGED << variant, env, req, buffer, sink, res >>

\* lines 151-161: the body must carry data or url; data is decoded, url is fetched
S_Json ==
  /\ variant = "secret" /\ pc = "s_json"
  /\ UNCHANGED << variant, env, req, sink, loc >>
  /\ IF loc.body.kind = "data" /\ Truthy(loc.body.data)
     THEN /\ buffer' = base64ToBuffer(loc.body.data)
          /\ pc' = "s_size"
          /\ UNCHANGED << res, log >>
     ELSE IF loc.body.kind = "url"
     THEN /\ Bump("fetches")
          /\ pc' = "s_fetch"
          /\ UNCHANGED << buffer, res >>
     ELSE ReplyError(400) /\ UNCHANGED << buffer, log >>

\* line 161-162: await fetch(url): it throws, answers not-OK, answers OK, or
\* never answers (the call carries no timeout)
S_Fetch ==
  /\ variant = "secret" /\ pc = "s_fetch"
  /\ UNCHANGED << variant, env, req, buffer, sink, log >>
  /\ \E o \in {"neterr", "nonok", "ok", "silent"} :
       CASE o = "neterr" -> ReplyError(500) /\ loc' = [loc EXCEPT !.fetched = o]
         [] o = "nonok" -> ReplyError(400) /\ loc' = [loc EXCEPT !.fetched = o]
         [] o = "ok" -> pc' = "s_fetchbody" /\ loc' = [loc EXCEPT !.fetched = o] /\ UNCHANGED res
         [] o = "silent" -> Block("fetch")

\* lines 163-166: await fetched.arrayBuffer()
S_FetchBody ==
  /\ variant = "secret" /\ pc = "s_fetchbody"
  /\ UNCHANGED << variant, env, req, sink, log >>
  /\ \/ \E b \in SmallBufs :
          /\ buffer' = b
          /\ loc' = [loc EXCEPT !.remote = b, !.served = TRUE]
          /\ pc' = "s_size"
          /\ UNCHANGED res
     \/ ReplyError(500) /\ loc' = [loc EXCEPT !.fetched = "bodyerr"] /\ UNCHANGED buffer
     \/ Block("fetch") /\ UNCHANGED buffer

\* lines 170-191: formidable: not installed, a parse error, no file part, a
\* file read from disk, or a failing read of the file; the failures fall back
\* to the raw stream, which the parser may have read to its end
S_Multipart ==
  /\ variant = "secret" /\ pc = "s_multipart"
  /\ UNCHANGED << variant, env, req, sink >>
  /\ \E o \in {"norequire", "parse_err", "nofile", "file", "readfail"} :
       CASE o = "norequire" -> pc' = "s_readraw" /\ UNCHANGED << buffer, loc, res, log >>
         [] o = "parse_err" ->
              /\ \E st \in {"intact", "ended"} : loc' = [loc EXCEPT !.stream = st]
              /\ pc' = "s_readraw"
              /\ Bump("bodyReads")
              /\ UNCHANGED << buffer, res >>
         [] o = "readfail" ->
              /\ loc' = [loc EXCEPT !.stream = "ended"]
              /\ pc' = "s_readraw"
              /\ Bump("bodyReads")
              /\ UNCHANGED << buffer, res >>
         [] o = "nofile" ->
              /\ ReplyError(400)
              /\ loc' = [loc EXCEPT !.stream = "ended"]
              /\ Bump("bodyReads")
              /\ UNCHANGED buffer
         [] o = "file" ->
              /\ buffer' = req.body.bytes
              /\ loc' = [loc EXCEPT !.stream = "ended"]
              /\ pc' = "s_size"
              /\ Bump("bodyReads")
              /\ UNCHANGED res

\* lines 193-195 and 200-203: await readRawBody(req).  On a stream that has
\* ended already neither "end" nor "error" comes and the promise never settles.
S_ReadRaw ==
  /\ variant = "secret" /\ pc = "s_readraw"
  /\ UNCHANGED << variant, env, req, sink >>
  /\ Bump("bodyReads")
  /\ IF loc.stream = "ended"
     THEN Block("stream") /\ UNCHANGED buffer
     ELSE \E o \in {"end", "error"} :
            IF o = "error"
            THEN ReplyError(500) /\ loc' = [loc EXCEPT !.stream = "error"] /\ UNCHANGED buffer
            ELSE IF Len(req.body.bytes) = 0 THEN ReplyError(400) /\ UNCHANGED << buffer, loc >>
            ELSE /\ buffer' = req.body.bytes
                 /\ loc' = [loc EXCEPT !.stream = "ended"]
                 /\ pc' = "s_size"
                 /\ UNCHANGED res

\* lines 206-210: the size guard
S_Size ==
  /\ variant = "secret" /\ pc = "s_size"
  /\ UNCHANGED << variant, env, req, buffer, sink, loc >>
  /\ Bump("sizeChecks")
  /\ IF SizeOK(buffer) THEN pc' = "s_meta" /\ UNCHANGED res ELSE ReplyError(413)

\* lines 212-243: music-metadata (a failure is caught), entropy, fingerprint,
\* then the classifier call when it is configured
S_Meta ==
  /\ variant = "secret" /\ pc = "s_meta"
  /\ UNCHANGED << variant, env, req, buffer, sink, res >>
  /\ IF env.HF
     THEN /\ log' = [log EXCEPT !.features = @ + 1, !.upstream = @ + 1]
          /\ loc' = [loc EXCEPT !.entropy = simpleEntropyEstimate(buffer),
                                !.dispatched = {1}]
          /\ pc' = "s_hf1"
     ELSE /\ Bump("features")
          /\ loc' = [loc EXCEPT !.entropy = simpleEntropyEstimate(buffer),
                                !.hf = Hf("note")]
          /\ pc' = "s_forward"

\* lines 60-93: the first fetch of callHuggingFaceAudio
S_Hf1 ==
  /\ variant = "secret" /\ pc = "s_hf1"
  /\ UNCHANGED << variant, env, req, buffer, sink, res >>
  /\ \E o \in {"neterr", "nonok", "ok", "silent"} :
       CASE o = "neterr" ->
              /\ loc' = [loc EXCEPT !.hf = Hf("error"), !.settled = {1}, !.failed = {1}]
              /\ pc' = "s_forward" /\ UNCHANGED log
         [] o = "ok" ->
              /\ loc' = [loc EXCEPT !.hf = Hf("raw"), !.settled = {1}]
              /\ pc' = "s_forward" /\ UNCHANGED log
         [] o = "nonok" -> pc' = "s_hf2" /\ Bump("upstream") /\ UNCHANGED loc
         [] o = "silent" -> Block("upstream") /\ UNCHANGED log

\* lines 69-84: the second fetch (JSON base64 payload) after a not-OK answer
S_Hf2 ==
  /\ variant = "secret" /\ pc = "s_hf2"
  /\ UNCHANGED << variant, env, req, buffer, sink, res, log >>
  /\ \E o \in {"neterr", "nonok", "ok", "silent"} :
       CASE o \in {"neterr", "nonok"} ->
              /\ loc' = [loc EXCEPT !.hf = Hf("error"), !.settled = {1}, !.failed = {1}]
              /\ pc' = "s_forward"
         [] o = "ok" ->
              /\ loc' = [loc EXCEPT !.hf = Hf("raw"), !.settled = {1}]
              /\ pc' = "s_forward"
         [] o = "silent" -> Block("upstream")

\* lines 245-274: the composite score, the report, and the forward to the sink
\* when one is configured: the fetch is started and not awaited; a throw while
\* starting it is caught
S_Forward ==
  /\ variant = "secret" /\ pc = "s_forward"
  /\ UNCHANGED << variant, env, req, buffer, res >>
  /\ loc' = [loc EXCEPT !.aiScore = Num(NumberOrZero(loc.hf.score)),
                        !.best = Composite(NumberOrZero(loc.hf.score), loc.entropy)]
  /\ IF env.SINK
     THEN Bump("sinkFwd") /\ sink' \in {"inflight", "dropped"}
     ELSE UNCHANGED << sink, log >>
  /\ pc' = "s_respond"

\* line 276: res.status(200).json({ ok: true, result: out })
S_Respond ==
  /\ variant = "secret" /\ pc = "s_respond"
  /\ SinkGate(sink)
  /\ Reply(200, "report", Num(loc.best), "")
  /\ UNCHANGED << variant, env, req, buffer, sink, loc, log >>

\* the forward settles on its own: it succeeds, fails, or (analyze.js, with
\* AbortSignal.timeout) is aborted; nothing reads the outcome
SinkSettle ==
  /\ sink = "inflight"
  /\ sink' \in {"ok", "failed"} \cup (IF variant = "secret" THEN {"aborted"} ELSE {})
  /\ UNCHANGED << variant, env, req, pc, buffer, loc, res, log >>

SecretNext ==
  \/ S_Entry \/ S_ReadJson \/ S_Json \/ S_Fetch \/ S_FetchBody \/ S_Multipart
  \/ S_ReadRaw \/ S_Size \/ S_Meta \/ S_Hf1 \/ S_Hf2 \/ S_Forward \/ S_Respond

\* ------------------------------------- the enterprise handler (part_001)

\* readRequestBody gives up on the stream: if (len > MAX_BYTES + 1024)
StreamTooLong(len) == len > MAX_BYTES + STREAM_SLACK

\* lines 101-115, 146, 82: OPTIONS, method, health check; then readRequestBody
\* returns req.body when the platform has set it and reads the stream otherwise
E_Entry ==
  /\ variant = "enterprise" /\ pc = "start"
  /\ UNCHANGED << variant, env, req, buffer, sink >>
  /\ IF req.method = "OPTIONS" THEN Reply(204, "empty", NoScore, "") /\ UNCHANGED << loc, log >>
     ELSE IF req.method \notin {"POST", "GET"} THEN ReplyError(405) /\ UNCHANGED << loc, log >>
     ELSE IF req.method = "GET" THEN Reply(200, "health", NoScore, "") /\ UNCHANGED << loc, log >>
     ELSE /\ UNCHANGED res
          /\ IF req.preParsed
             THEN /\ pc' = IF req.ct = "json" THEN "e_json" ELSE "e_raw"
                  /\ loc' = [loc EXCEPT !.body = req.body]
                  /\ UNCHANGED log
             ELSE /\ pc' = "e_stream"
                  /\ Bump("bodyReads")
                  /\ UNCHANGED loc

\* what the handler does when readRequestBody rejects: the JSON branch lets
\* the error reach the outer catch (500), the raw branch turns it into null
\* and answers 400 "No file provided"
E_Rejected ==
  IF req.ct = "json" THEN ReplyError(500) ELSE ReplyError(400)

\* lines 86-95: one event of the request stream: a chunk (the small one or the
\* rest of the body), the end, or an error
E_Stream ==
  /\ variant = "enterprise" /\ pc = "e_stream"
  /\ UNCHANGED << variant, env, req, buffer, sink, log >>
  /\ \/ /\ loc.received < WireLen(req.body)
        /\ \E d \in {1, WireLen(req.body) - loc.received} :
             IF StreamTooLong(loc.received + d)
             THEN /\ E_Rejected
                  /\ loc' = [loc EXCEPT !.received = @ + d, !.stream = "destroyed"]
             ELSE /\ loc' = [loc EXCEPT !.received = @ + d]
                  /\ UNCHANGED << pc, res >>
     \/ /\ loc.received = WireLen(req.body)
        /\ loc' = [loc EXCEPT !.body = req.body, !.stream = "ended"]
        /\ pc' = IF req.ct = "json" THEN "e_json" ELSE "e_raw"
        /\ UNCHANGED res
     \/ /\ E_Rejected
        /\ loc' = [loc EXCEPT !.stream = "error"]

\* lines 116-144: JSON.parse of a body read from the stream, then url before data
E_Json ==
  /\ variant = "enterprise" /\ pc = "e_json"
  /\ UNCHANGED << variant, env, req, sink, loc >>
  /\ IF ~req.preParsed /\ loc.body.kind \in {"invalid", "emptytext"}
     THEN ReplyError(400) /\ UNCHANGED << buffer, log >>
     ELSE IF loc.body.kind = "null"
     THEN ReplyError(400) /\ UNCHANGED << buffer, log >>
     ELSE IF loc.body.kind = "url"
     THEN /\ Bump("fetches")
          /\ pc' = "e_fetch"
          /\ UNCHANGED << buffer, res >>
     ELSE IF loc.body.kind = "data" /\ Truthy(loc.body.data)
     THEN /\ buffer' = base64ToBuffer(loc.body.data)
          /\ pc' = "e_size"
          /\ UNCHANGED << res, log >>
     ELSE ReplyError(400) /\ UNCHANGED << buffer, log >>

\* lines 125-126: await fetch(url).catch(...): a rejection and a not-OK answer
\* both answer 400; the call carries no timeout
E_Fetch ==
  /\ variant = "enterprise" /\ pc = "e_fetch"
  /\ UNCHANGED << variant, env, req, buffer, sink, log >>
  /\ \E o \in {"neterr", "nonok", "ok", "silent"} :
       CASE o \in {"neterr", "nonok"} -> ReplyError(400) /\ loc' = [loc EXCEPT !.fetched = o]
         [] o = "ok" -> pc' = "e_fetchbody" /\ loc' = [loc EXCEPT !.fetched = o] /\ UNCHANGED res
         [] o = "silent" -> Block("fetch")

\* lines 127-133: await r.arrayBuffer().catch(() => null)
E_FetchBody ==
  /\ variant = "enterprise" /\ pc = "e_fetchbody"
  /\ UNCHANGED << variant, env, req, sink, log >>
  /\ \/ \E b \in SmallBufs :
          /\ buffer' = b
          /\ loc' = [loc EXCEPT !.remote = b, !.served = TRUE]
          /\ pc' = "e_size"
          /\ UNCHANGED res
     \/ ReplyError(400) /\ loc' = [loc EXCEPT !.fetched = "bodyerr"] /\ UNCHANGED buffer
     \/ Block("fetch") /\ UNCHANGED buffer

\* lines 146-149: the raw body; nothing, or no byte, is "No file provided"
E_Raw ==
  /\ variant = "enterprise" /\ pc = "e_raw"
  /\ UNCHANGED << variant, env, req, sink, loc, log >>
  /\ IF Len(loc.body.bytes) = 0
     THEN ReplyError(400) /\ UNCHANGED buffer
     ELSE buffer' = loc.body.bytes /\ pc' = "e_size" /\ UNCHANGED res

\* lines 152-153: the size guard
E_Size ==
  /\ variant = "enterprise" /\ pc = "e_size"
  /\ UNCHANGED << variant, env, req, buffer, sink, loc >>
  /\ Bump("sizeChecks")
  /\ IF SizeOK(buffer) THEN pc' = "e_features" /\ UNCHANGED res ELSE ReplyError(413)

\* lines 155-178, 71-77: sha256, entropy, zeroByteRatio, then callExternalAudio:
\* null without AUDIO_BACKEND_URL, else safeFetchJson with its 20 s timer
E_Features ==
  /\ variant = "enterprise" /\ pc = "e_features"
  /\ UNCHANGED << variant, env, req, buffer, sink, res >>
  /\ IF env.BACKEND
     THEN /\ log' = [log EXCEPT !.features = @ + 1, !.upstream = @ + 1]
          /\ loc' = [loc EXCEPT !.entropy = simpleEntropyEstimate(buffer),
                                !.zeroRatio = zeroByteRatio(buffer),
                                !.dispatched = {1}]
          /\ pc' = "e_ext"
     ELSE /\ Bump("features")
          /\ loc' = [loc EXCEPT !.entropy = simpleEntropyEstimate(buffer),
                                !.zeroRatio = zeroByteRatio(buffer),
                                !.ext = "null"]
          /\ pc' = "e_forward"

\* lines 52-56, 63-65: the fetch of safeFetchJson: it rejects, or the timer
\* aborts it when no answer comes, and both give { ok: false, error }; or the
\* answer comes and the timer is cleared
E_Ext ==
  /\ variant = "enterprise" /\ pc = "e_ext"
  /\ UNCHANGED << variant, env, req, buffer, sink, res, log >>
  /\ \E o \in {"neterr", "silent", "answered"} :
       IF o = "answered" THEN pc' = "e_extbody" /\ UNCHANGED loc
       ELSE /\ loc' = [loc EXCEPT !.ext = "error", !.settled = {1}, !.failed = {1}]
            /\ pc' = "e_forward"

\* lines 57-62: await resp.text().catch(() => ""), JSON.parse in a try: the
\* result is { ok, status, json, text } whatever the body is.  The timer is
\* cleared by now: a body that never ends is awaited for ever.
E_ExtBody ==
  /\ variant = "enterprise" /\ pc = "e_extbody"
  /\ UNCHANGED << variant, env, req, buffer, sink, log >>
  /\ \E o \in {"ok", "nonok", "badjson", "texterr", "silent"} :
       IF o = "silent" THEN Block("upstream")
       ELSE /\ loc' = [loc EXCEPT !.ext = o, !.settled = {1},
                                  !.failed = IF o = "ok" THEN {} ELSE {1}]
            /\ pc' = "e_forward"
            /\ UNCHANGED res

\* lines 210-224: the forward to the sink in a detached async function whose
\* body is one try/catch
E_Forward ==
  /\ variant = "enterprise" /\ pc = "e_forward"
  /\ UNCHANGED << variant, env, req, buffer, loc, res >>
  /\ IF env.SINK
     THEN Bump("sinkFwd") /\ sink' \in {"inflight", "dropped"}
     ELSE UNCHANGED << sink, log >>
  /\ pc' = "e_respond"

\* line 226: jsonResponse(res, 200, report)
E_Respond ==
  /\ variant = "enterprise" /\ pc = "e_respond"
  /\ SinkGate(sink)
  /\ Reply(200, "report", NoScore, "")
  /\ UNCHANGED << variant, env, req, buffer, sink, loc, log >>

EnterpriseNext ==
  \/ E_Entry \/ E_Stream \/ E_Json \/ E_Fetch \/ E_FetchBody \/ E_Raw \/ E_Size
  \/ E_Features \/ E_Ext \/ E_ExtBody \/ E_Forward \/ E_Respond

\* ---------------------------------- the mediaUrl handler (analyze.js 293-369)

\* the for loop over MODELS awaits each queryModel before the next is called
NextModels(idx) == IF idx < NMODELS THEN {idx + 1} ELSE {}

\* lines 297-307: OPTIONS; the body (parsed when it is a string); mediaUrl
M_Entry ==
  /\ variant = "media" /\ pc = "start"
  /\ UNCHANGED << variant, env, req, buffer, sink, loc >>
  /\ IF req.method = "OPTIONS" THEN Reply(200, "empty", NoScore, "") /\ UNCHANGED log
     ELSE IF req.body.kind # "url" THEN ReplyError(400) /\ UNCHANGED log
     ELSE pc' = "m_fetch" /\ Bump("fetches") /\ UNCHANGED res

\* line 307: await fetch(mediaUrl) of node-fetch, with no timeout; the status
\* of the answer is not looked at
M_Fetch ==
  /\ variant = "media" /\ pc = "m_fetch"
  /\ UNCHANGED << variant, env, req, buffer, sink, log >>
  /\ \E o \in {"neterr", "nonok", "ok", "silent"} :
       CASE o = "neterr" -> ReplyError(500) /\ loc' = [loc EXCEPT !.fetched = o]
         [] o \in {"nonok", "ok"} ->
              /\ loc' = [loc EXCEPT !.fetched = o]
              /\ pc' = "m_fetchbody"
              /\ UNCHANGED res
         [] o = "silent" -> Block("fetch")

\* lines 308-309: await audioRes.arrayBuffer()
M_FetchBody ==
  /\ variant = "media" /\ pc = "m_fetchbody"
  /\ UNCHANGED << variant, env, req, sink, log >>
  /\ \/ \E b \in MediaBufs :
          /\ buffer' = b
          /\ loc' = [loc EXCEPT !.remote = b, !.served = (loc.fetched = "ok")]
          /\ pc' = "m_analyze"
          /\ UNCHANGED res
     \/ ReplyError(500) /\ loc' = [loc EXCEPT !.fetched = "bodyerr"] /\ UNCHANGED buffer
     \/ Block("fetch") /\ UNCHANGED buffer

\* lines 314-342: the header trap, analyzeSignal, and the first queryModel
\* when HF_API_KEY is set
M_Analyze ==
  /\ variant = "media" /\ pc = "m_analyze"
  /\ UNCHANGED << variant, env, req, buffer, sink, res >>
  /\ IF env.HF
     THEN /\ log' = [log EXCEPT !.features = @ + 1, !.upstream = @ + 1]
          /\ loc' = [loc EXCEPT !.meta = metaRisk(buffer), !.phys = physicsScore(buffer),
                                !.physics = analyzeSignal(buffer),
                                !.idx = 1, !.dispatched = {1}]
          /\ pc' = "m_query"
     ELSE /\ Bump("features")
          /\ loc' = [loc EXCEPT !.meta = metaRisk(buffer), !.phys = physicsScore(buffer),
                                !.physics = analyzeSignal(buffer)]
          /\ pc' = "m_verdict"

\* lines 338-341, 397-410: queryModel settles (every failure is caught and
\* gives 0), the best score is kept, and the next model is called; or the
\* classifier never answers (node-fetch, no timeout)
M_Query ==
  /\ variant = "media" /\ pc = "m_query"
  /\ UNCHANGED << variant, env, req, buffer, sink >>
  /\ \/ \E r \in ModelReplies :
          IF QueryThrows(r)
          THEN /\ loc' = [loc EXCEPT !.settled = @ \cup {loc.idx},
                                     !.failed = @ \cup {loc.idx},
                                     !.reply = r]
               /\ ReplyError(500)
               /\ UNCHANGED log
          ELSE /\ loc' = [loc EXCEPT !.aiScore = UpdateAi(@, queryModel(r)),
                                     !.reply = r,
                                     !.score = queryModel(r),
                                     !.settled = @ \cup {loc.idx},
                                     !.failed = IF ReplyFailed(r) THEN @ \cup {loc.idx} ELSE @,
                                     !.best = IF ~ReplyFailed(r) /\ queryModel(r).t = "num"
                                              THEN Max2(@, queryModel(r).v) ELSE @,
                                     !.dispatched = @ \cup NextModels(loc.idx),
                                     !.idx = @ + 1]
               /\ log' = [log EXCEPT !.upstream = @ + Cardinality(NextModels(loc.idx))]
               /\ pc' = IF loc.settled \cup {loc.idx} = 1..NMODELS
                        THEN "m_verdict" ELSE "m_query"
               /\ UNCHANGED res
     \/ Block("upstream") /\ UNCHANGED log

\* lines 346-364: finalScore, the method tag, the 200 response
M_Verdict ==
  /\ variant = "media" /\ pc = "m_verdict"
  /\ Reply(200, "report", FinalScore(loc.aiScore, loc.phys, loc.meta),
           MethodTag(loc.aiScore, loc.phys, loc.meta))
  /\ UNCHANGED << variant, env, req, buffer, sink, loc, log >>

MediaNext ==
  \/ M_Entry \/ M_Fetch \/ M_FetchBody \/ M_Analyze \/ M_Query \/ M_Verdict

\* ------------------------------------ the audioUrl handler (part_002 1-41)

\* lines 3-7: the method, then await readJson(req)
Q_Entry ==
  /\ variant = "quality" /\ pc = "start"
  /\ UNCHANGED << variant, env, req, buffer, sink, loc >>
  /\ IF req.method # "POST" THEN ReplyError(405) /\ UNCHANGED log
     ELSE pc' = "q_readjson" /\ Bump("bodyReads") /\ UNCHANGED res

\* lines 29-40 and 8-26: readJson listens to "data" and "end" only.  At the end
\* JSON.parse runs: a throw rejects and the handler's catch answers 500; the
\* JSON null makes the destructuring throw (500); a body without audioUrl is
\* answered 400, one with audioUrl 200.  On an error of the stream nothing
\* resolves or rejects the promise and the handler never gets past its await.
Q_ReadJson ==
  /\ variant = "quality" /\ pc = "q_readjson"
  /\ UNCHANGED << variant, env, req, buffer, sink, log >>
  /\ \E o \in {"end", "error"} :
       IF o = "error" THEN Block("stream")
       ELSE /\ loc' = [loc EXCEPT !.body = req.body, !.stream = "ended"]
            /\ IF req.body.kind \in {"invalid", "emptytext", "null"} THEN ReplyError(500)
               ELSE IF req.body.kind # "url" THEN ReplyError(400)
               ELSE Reply(200, "analysis", NoScore, "")

QualityNext == Q_Entry \/ Q_ReadJson

\* ------------------------------------------------------------ specification

HandlerNext == SecretNext \/ EnterpriseNext \/ MediaNext \/ QualityNext

Next == HandlerNext \/ SinkSettle

Spec == Init /\ [][Next]_vars

\* the handler's own steps are taken when they can be; what the network does
\* is chosen inside them
FairSpec == Spec /\ WF_vars(HandlerNext)

\* ------------------------------------- analyzeSignal, iteration by iteration

\* a buffer of n flat samples: every byte is `v`
FlatRun(n, v) == Fill(STRIDE * n, v)

\* the buffers analyzeSignal is run on: the short ones; flat runs of 50 to 53
\* samples (the run must exceed 50, the segments must exceed 2); two runs of 52
\* samples with one sample between them that is not flat; a run that mixes 0
\* and 128; flat bytes everywhere but at the sampled places; and the silence
\* scenario: zero bytes followed by bytes that are not flat, and a buffer with
\* no flat byte at all
SignalBufs ==
  << <<>>, <<0>>, <<7>>, <<128, 0>>,
     FlatRun(RUN_THRESHOLD, 0),
     FlatRun(RUN_THRESHOLD + 1, 0),
     FlatRun(RUN_THRESHOLD + SEGMENT_THRESHOLD, 0),
     FlatRun(RUN_THRESHOLD + SEGMENT_THRESHOLD + 1, 0),
     FlatRun(RUN_THRESHOLD + SEGMENT_THRESHOLD, 0) \o FlatRun(1, 9)
       \o FlatRun(RUN_THRESHOLD + SEGMENT_THRESHOLD, 128),
     [i \in 1..(STRIDE * (RUN_THRESHOLD + SEGMENT_THRESHOLD + 1)) |->
        IF i % (2 * STRIDE) = 1 THEN 128 ELSE 0],
     [i \in 1..(STRIDE * (RUN_THRESHOLD + SEGMENT_THRESHOLD + 1)) |->
        IF i % STRIDE = 1 THEN 7 ELSE 0],
     Fill(ScenarioBytes, 0) \o [i \in 1..ScenarioBytes |-> 1 + (i % 100)],
     [i \in 1..(2 * ScenarioBytes) |-> 1 + ((7 * i) % 127)] >>

\* the argument of the call: loc.data is its place in SignalBufs
SignalData == SignalBufs[loc.data]

\* lines 373-376: let zeroCount = 0; let min = 255; let max = 0;
\* let silenceSegments = 0; and the loop's i = 0
SignalInit ==
  /\ variant = "media"
  /\ env = Environment("", FALSE, FALSE, FALSE)
  /\ req = Request("POST", "", "json", TRUE, JsonBody("url"))
  /\ pc = "sig_loop"
  /\ buffer = <<>>
  /\ \E n \in 1..Len(SignalBufs) :
       loc = [ data |-> n, i |-> 0, zeroCount |-> 0, min |-> 255, max |-> 0,
               silenceSegments |-> 0 ]
  /\ sink = "none"
  /\ res = <<>>
  /\ log = InitLog

\* lines 378-389: one iteration of the loop, on data[i]
SignalStep ==
  /\ pc = "sig_loop"
  /\ loc.i < Len(SignalData)
  /\ LET val == SignalData[loc.i + 1]
         run == loc.zeroCount + 1
     IN  loc' = [ data |-> loc.data,
                  i |-> loc.i + STRIDE,
                  min |-> IF val < loc.min THEN val ELSE loc.min,
                  max |-> IF val > loc.max THEN val ELSE loc.max,
                  zeroCount |-> IF Flat(val) THEN run ELSE 0,
                  silenceSegments |->
                    IF Flat(val) /\ run > RUN_THRESHOLD
                    THEN loc.silenceSegments + 1 ELSE loc.silenceSegments ]
  /\ UNCHANGED << variant, env, req, pc, buffer, sink, res, log >>

\* lines 391-394: the loop is over, the result is returned
SignalReturn ==
  /\ pc = "sig_loop"
  /\ ~(loc.i < Len(SignalData))
  /\ pc' = "sig_return"
  /\ res' = << [ hasDigitalSilence |-> loc.silenceSegments > SEGMENT_THRESHOLD,
                 dynamicRange |-> loc.max - loc.min ] >>
  /\ UNCHANGED << variant, env, req, buffer, loc, sink, log >>

SignalNext == SignalStep \/ SignalReturn

SignalSpec == SignalInit /\ [][SignalNext]_vars

\* ------------------------------------------------------------------ properties

Responded == Len(res) > 0
Status == res[1].status
Done == pc = "done"

\* the request is a POST that the handler admits (the secret, where one is asked)
Admitted ==
  /\ req.method = "POST"
  /\ variant = "secret" => AuthOK(req.secret, env.WORKER_SECRET)

\* how the request carries its artifact
TransportMode ==
  IF req.ct = "raw" THEN "raw"
  ELSE IF req.ct = "json" /\ req.body.kind = "data" THEN "base64"
  ELSE IF req.ct = "json" /\ req.body.kind = "url" THEN "url"
  ELSE "none"

\* the artifact of the request: the raw body, the decoded base64 text, or what
\* the remote server sent
Artifact ==
  CASE TransportMode = "raw" -> req.body.bytes
    [] TransportMode = "base64" -> base64ToBuffer(req.body.data)
    [] OTHER -> loc.remote

\* the artifact reached the handler: the request stream did not fail, and in
\* url mode the remote server answered OK with a body
Delivered ==
  /\ TransportMode # "none"
  /\ loc.stream # "error"
  /\ TransportMode = "url" => loc.served

\* the buffer has been built (it is assigned once, at the end of normalization)
Materialized ==
  \/ pc \in {"s_size", "e_size", "m_analyze"}
  \/ log.sizeChecks > 0
  \/ log.features > 0

\* the upstream calls the configuration asks for
Upstreams ==
  CASE variant = "media" -> IF env.HF THEN 1..NMODELS ELSE {}
    [] variant = "secret" -> IF env.HF THEN {1} ELSE {}
    [] OTHER -> IF env.BACKEND THEN {1} ELSE {}

\* C1: in the secret-guarded handler a POST without the configured, matching
\* secret is answered 401 and nothing is read, fetched, classified or
\* forwarded; with the matching secret it is not answered 401 and goes on to
\* read its body.
C1_SecretGate ==
  (variant = "secret" /\ req.method = "POST") =>
    IF env.WORKER_SECRET # "" /\ req.secret = env.WORKER_SECRET
    THEN /\ \A i \in 1..Len(res) : res[i].status # 401
         /\ pc # "start" =>
              \/ pc \in {"s_readjson", "s_multipart", "s_readraw"}
              \/ log.bodyReads > 0
              \/ loc.body # NoBody
    ELSE /\ log.bodyReads = 0 /\ log.fetches = 0 /\ log.upstream = 0 /\ log.sinkFwd = 0
         /\ log.features = 0
         /\ pc # "start" => (Done /\ Len(res) = 1 /\ Status = 401)

C1_Witness ==
  /\ variant = "secret" /\ req.method = "POST"
  /\ env.WORKER_SECRET = "s1" /\ req.secret = "s2"
  /\ Done /\ Status = 401

\* C2: in every transport mode an artifact of exactly MAX_BYTES bytes is
\* answered 200, a longer one is answered 413 and with nothing else, and the
\* size is checked once, on the materialized artifact.
C2_SizeEnforcement ==
  (Done /\ variant \in {"secret", "enterprise"} /\ Admitted /\ Delivered) =>
    /\ Len(Artifact) = MAX_BYTES => (Status = 200 /\ log.sizeChecks = 1)
    /\ Len(Artifact) > MAX_BYTES => (Status = 413 /\ log.sizeChecks = 1)

\* C3: a network peer that never answers (the remote file server, a
\* classifier) does not leave the handler waiting for ever: the handler has
\* answered or can still take a step.
C3_NoIndefiniteBlock ==
  loc.silent \in {"fetch", "upstream"} => (Responded \/ ENABLED HandlerNext)

\* C4: the classifier calls are all dispatched before any of them settles,
\* and the score is computed only when all have settled.
C4_ConcurrentDispatch ==
  (variant = "media" /\ env.HF) =>
    /\ loc.settled # {} => loc.dispatched = 1..NMODELS
    /\ (Responded /\ res[1].kind = "report") => loc.settled = 1..NMODELS

C6_NormalizationAborts ==
  /\ ( \/ loc.fetched \in {"neterr", "nonok", "bodyerr"}
       \/ (Admitted /\ pc # "start" /\ TransportMode = "none" /\ req.ct = "json")
       \/ (Materialized /\ TransportMode # "none" /\ Len(buffer) = 0)
       \/ (Materialized /\ TransportMode # "none" /\ variant # "media"
             /\ Len(buffer) > MAX_BYTES) )
     => /\ log.features = 0 /\ log.upstream = 0 /\ log.sinkFwd = 0
        /\ Done => Status >= 400
  /\ (Responded /\ res[1].kind = "report") => log.features = 1

\* C7: in the base64, url and raw modes an artifact that is empty once decoded
\* or fetched is answered with a 400-class error and no feature is extracted
\* from it.
C7_EmptyRejected ==
  (Materialized /\ TransportMode # "none" /\ Len(buffer) = 0) =>
    /\ log.features = 0
    /\ Done => Status \in 400..499

\* C8: the response does not wait for the sink forward and does not depend on
\* it: once the report is ready the response can be written whatever the
\* state of the forward, and after a forward was started the answer is the
\* one 200 report, whether the forward is in flight, succeeded, failed, was
\* aborted or was dropped by a throw.
C8_FireAndForget ==
  /\ pc \in {"s_respond", "e_respond"} => ENABLED (S_Respond \/ E_Respond)
  /\ (log.sinkFwd > 0 /\ pc \notin {"s_respond", "e_respond"}) =>
       /\ Done /\ Len(res) = 1 /\ Status = 200 /\ res[1].kind = "report"
       /\ variant = "secret" => res[1].score = Num(loc.best)

C8_Witness ==
  /\ Done /\ Status = 200 /\ sink = "inflight"

\* C9: the composite score of every report is a number in [0, 1].
C9_CompositeBounded ==
  \A i \in 1..Len(res) :
    (res[i].kind = "report" /\ variant \in {"secret", "media"}) =>
      /\ res[i].score.t = "num"
      /\ res[i].score.v \in 0..100

\* C10: with no classifier configured, or with every classifier call failed,
\* the score is computed from the heuristics of the buffer alone and the
\* method tag is not the classifier's.
C10_Fallback ==
  (Done /\ res[1].kind = "report" /\ variant \in {"secret", "media"}
        /\ loc.failed = Upstreams) =>
    IF variant = "media"
    THEN /\ res[1].score = Num(Max2(physicsScore(buffer), metaRisk(buffer)))
         /\ res[1].method # "NEURAL_AUDIO_NET"
    ELSE /\ res[1].score = Num((2 * HEUR_WEIGHT * simpleEntropyEstimate(buffer) + 10) \div 20)
         /\ res[1].method # "NEURAL_AUDIO_NET"

C10_Witness ==
  /\ variant = "media" /\ env.HF /\ Done /\ Status = 200
  /\ loc.failed = 1..NMODELS
  /\ res[1].method = "SIGNAL_PHYSICS"

\* the reply carries no score that can be taken from it: the call failed, the
\* body has the wrong shape, no label matches, or the matching element's score
\* is no number
NoScoreIn(reply) ==
  \/ reply.kind \in {"neterr", "badjson", "object", "nolabel", "nomatch"}
  \/ (reply.kind = "fake" /\ reply.score.t # "num")

\* C11: a classifier reply from which no numeric score can be taken is never
\* handed to the scorer as the score 0, the value a classifier that answered
\* with score 0 gives.
C11_NoScoreIsNotZero ==
  (variant = "media" /\ loc.reply # NoReply /\ NoScoreIn(loc.reply)) =>
    loc.score # queryModel([kind |-> "fake", score |-> Num(0)])

\* the tag of the component with the largest magnitude, the first of external,
\* heuristic, fingerprint among equals
LargestSource(ai, phys, meta) ==
  IF ai >= phys /\ ai >= meta THEN "NEURAL_AUDIO_NET"
  ELSE IF phys >= meta THEN "SIGNAL_PHYSICS"
  ELSE "ENCODER_FINGERPRINT"

\* C12: a method tag that names a signal source names the one with the largest
\* magnitude among the external score, the signal-physics score and the
\* encoder-fingerprint score, ties going external > heuristic > fingerprint.
C12_MethodNamesLargest ==
  (variant = "media" /\ Responded /\ res[1].kind = "report"
     /\ res[1].method # "UNCERTAIN") =>
    res[1].method = LargestSource(ToNum(loc.aiScore), loc.phys, loc.meta)

\* C13: the features a handler extracts are in their ranges: entropy in [0, 1],
\* zeroByteRatio a number in [0, 1], dynamicRange not negative, whatever the
\* buffer (a buffer of length 0 or 1 too).
C13_FeatureRanges ==
  log.features > 0 =>
    /\ loc.entropy \in 0..100
    /\ variant = "enterprise" => (loc.zeroRatio.t = "num" /\ loc.zeroRatio.v \in 0..100)
    /\ variant = "media" => loc.physics.dynamicRange >= 0

\* the k-th byte the loop looks at (k from 1) is 0 or 128
FlatSampleAt(k) == SignalData[50 * (k - 1) + 1] \in {0, 128}

\* the samples looked at so far
SamplesTaken == loc.i \div 50

\* the length of the flat run that ends at sample k (0 when sample k is not flat)
RunEndingAt(k) ==
  LET breaks == {j \in 1..k : ~FlatSampleAt(j)}
  IN  IF breaks = {} THEN k ELSE k - (CHOOSE j \in breaks : \A h \in breaks : h <= j)

\* sample k ends a flat run of more than 50 samples: it and the 50 before it are flat
LongRunAt(k) == k > 50 /\ \A j \in (k - 50)..k : FlatSampleAt(j)

\* the silence scenario: zero bytes, then as many bytes that are not flat
SilenceThenNoise == Fill(ScenarioBytes, 0) \o [i \in 1..ScenarioBytes |-> 1 + (i % 100)]

\* C14: analyzeSignal looks at every 50th byte; its run counter is the length
\* of the run of flat samples (0 or 128) ending at the last sample, 0 after a
\* sample that is not flat; its segment counter is the number of samples at
\* which that run was longer than 50; hasDigitalSilence is true exactly when
\* the segment counter ends above 2.  So a buffer without a flat run of more
\* than 50 samples gives false, and zero bytes followed by bytes that are not
\* flat give true.
C14_SilenceDetection ==
  /\ loc.i = 50 * SamplesTaken
  /\ loc.zeroCount = RunEndingAt(SamplesTaken)
  /\ loc.silenceSegments = Cardinality({k \in 1..SamplesTaken : LongRunAt(k)})
  /\ pc = "sig_return" =>
       /\ 50 * (SamplesTaken - 1) < Len(SignalData) \/ Len(SignalData) = 0
       /\ res[1].hasDigitalSilence = (loc.silenceSegments > 2)
       /\ (\A k \in 1..SamplesTaken : ~LongRunAt(k)) => ~res[1].hasDigitalSilence
       /\ SignalData = SilenceThenNoise => res[1].hasDigitalSilence
       /\ res[1] = analyzeSignal(SignalData)

C14_Witness ==
  /\ pc = "sig_return" /\ SignalData = SilenceThenNoise
  /\ loc.zeroCount = 0
  /\ res[1].hasDigitalSilence

\* C15: an invocation writes exactly one response: never two, one when the
\* handler has returned, and, with network peers that do answer, the handler
\* does not come to rest before it has written it (a thrown exception or an
\* error of the request stream at any step included).
C15_ExactlyOneResponse ==
  /\ Len(res) <= 1
  /\ Done => Len(res) = 1
  /\ (loc.silent \notin {"fetch", "upstream"} /\ ~ENABLED HandlerNext) => Len(res) = 1

====
